---------------------------- MODULE Spec2Model ----------------------------
(***************************************************************************)
(* Model of main.py (HR attrition app): the financial calculator           *)
(* (FinancialAnalysisCalculator), the artifact loader                      *)
(* (load_model_components) and the risk scorer (make_prediction).          *)
(*                                                                         *)
(* Numbers.  Python floats are modelled by exact rationals [n, d] in       *)
(* lowest terms, except where the code truncates a float to an integer     *)
(* (int(total_employees * (attrition_rate / 100))): there the IEEE-754     *)
(* binary64 operations are modelled bit by bit (round to nearest, ties to  *)
(* even), because the truncation turns a rounding error into a different   *)
(* integer.  Money is counted in thousands of the currency unit, so that   *)
(* the sums of the code stay inside the integers of the checker; every     *)
(* money computation of the code is linear in the salary.                  *)
(***************************************************************************)
EXTENDS Integers, Sequences, FiniteSets, TLC

VARIABLES
    calc,     \* the FinancialAnalysisCalculator instance (its three tables)
    fin,      \* the calculator call of the current script run: operation,
              \* arguments and outcome; [op |-> "none"] before the call is made
    files,    \* the four artifact files under models/: ok, missing or corrupt
    cache,    \* the memo of st.cache_resource for load_model_components
    load,     \* the load_model_components call of the current script run
    pred,     \* the make_prediction call of the current script run
    session,  \* st.session_state of the browser session
    view      \* what the last script run rendered: the page and its tabs

vars == <<calc, fin, files, cache, load, pred, session, view>>

---------------------------------------------------------------------------
(* Exact rational arithmetic: the value of a Python float expression.      *)

Abs(x) == IF x < 0 THEN -x ELSE x

RECURSIVE GCD(_, _)
GCD(a, b) == IF b = 0 THEN a ELSE GCD(b, a % b)

\* n/d in lowest terms with a positive denominator (d # 0)
Rat(n, d) ==
    LET g == GCD(Abs(n), Abs(d))
        s == IF d < 0 THEN -1 ELSE 1
    IN  [n |-> s * (n \div g), d |-> s * (d \div g)]

RatInt(k) == [n |-> k, d |-> 1]

\* x * y, cancelling across before multiplying
RatMul(x, y) ==
    IF x.n = 0 \/ y.n = 0 THEN RatInt(0)
    ELSE LET g1 == GCD(Abs(x.n), y.d)
             g2 == GCD(Abs(y.n), x.d)
         IN  [n |-> (x.n \div g1) * (y.n \div g2),
              d |-> (x.d \div g2) * (y.d \div g1)]

\* x / y for y # 0
RatDiv(x, y) ==
    RatMul(x, IF y.n < 0 THEN [n |-> -y.d, d |-> -y.n]
                         ELSE [n |-> y.d, d |-> y.n])

\* x + y over the least common denominator
RatAdd(x, y) ==
    LET g == GCD(x.d, y.d)
        l == (x.d \div g) * y.d
    IN  Rat(x.n * (l \div x.d) + y.n * (l \div y.d), l)

RatSub(x, y) == RatAdd(x, [n |-> -y.n, d |-> y.d])

RatLess(x, y) == x.n * y.d < y.n * x.d

RatLeq(x, y) == x.n * y.d <= y.n * x.d

---------------------------------------------------------------------------
(* IEEE-754 binary64, as far as int(total_employees * (attrition_rate /    *)
(* 100)) needs it.  A positive float is [sig, exp] of value sig * 2^exp,   *)
(* where sig is a natural of exactly SigBits bits.  Such a natural exceeds *)
(* the checker's integers, so it is held as a sequence of limbs (digits of *)
(* base 2^LimbBits), most significant first.  Zero has the empty sequence. *)

SigBits == 53

LimbBits == 12

RECURSIVE Pow2(_)
Pow2(k) == IF k = 0 THEN 1 ELSE 2 * Pow2(k - 1)

Base == Pow2(LimbBits)

F64Zero == [sig |-> <<>>, exp |-> 0]

\* the number of bits of the natural v below 2^30
BitLength(v) == CHOOSE k \in 0..30 : (k = 0 \/ Pow2(k - 1) <= v) /\ v < Pow2(k)

\* the number of bits of the limbs x (x[1] # 0)
LimbsBitLength(x) == LimbBits * (Len(x) - 1) + BitLength(x[1])

RECURSIVE StripZeros(_)
StripZeros(x) == IF x # <<>> /\ x[1] = 0 THEN StripZeros(Tail(x)) ELSE x

RECURSIVE DivStep(_, _, _, _)
\* limbs i.. of x after the remainder r, divided by d: <<quotient limbs, remainder>>
DivStep(x, d, i, r) ==
    IF i > Len(x) THEN << <<>>, r >>
    ELSE LET t    == r * Base + x[i]
             rest == DivStep(x, d, i + 1, t % d)
         IN  << <<t \div d>> \o rest[1], rest[2] >>

\* x divided by the small natural d: <<quotient, remainder>>
DivSmall(x, d) ==
    LET q == DivStep(x, d, 1, 0) IN <<StripZeros(q[1]), q[2]>>

RECURSIVE NatLimbs(_)
\* the limbs of the natural c
NatLimbs(c) == IF c = 0 THEN <<>> ELSE NatLimbs(c \div Base) \o <<c % Base>>

RECURSIVE MulStep(_, _, _, _)
\* limbs 1..i of x times the small natural k, plus carry
MulStep(x, k, i, carry) ==
    IF i = 0 THEN NatLimbs(carry)
    ELSE LET t == k * x[i] + carry
         IN  MulStep(x, k, i - 1, t \div Base) \o <<t % Base>>

MulSmall(x, k) == MulStep(x, k, Len(x), 0)

RECURSIVE LimbsToNat(_)
\* the natural of the limbs x (below 2^31)
LimbsToNat(x) ==
    IF x = <<>> THEN 0 ELSE Base * LimbsToNat(SubSeq(x, 1, Len(x) - 1)) + x[Len(x)]

\* whether the natural of the limbs x is odd
IsOdd(x) == x # <<>> /\ x[Len(x)] % 2 = 1

\* the float of the quotient x and the remainder rem of a division by d, at
\* exponent e: rounded to nearest, the tie (2 * rem = d) to the even significand
F64Round(x, rem, d, e) ==
    LET up  == 2 * rem > d \/ (2 * rem = d /\ IsOdd(x))
        inc == IF up THEN MulStep(x, 1, Len(x), 1) ELSE x
    IN  IF LimbsBitLength(inc) > SigBits
        THEN [sig |-> DivSmall(inc, 2)[1], exp |-> e + 1]
        ELSE [sig |-> inc, exp |-> e]

RECURSIVE ScaleUp(_, _, _)
\* the least k with a * 2^k >= b   (a > 0)
ScaleUp(a, b, k) == IF a >= b THEN k ELSE ScaleUp(2 * a, b, k + 1)

\* a / b of two floats holding the naturals a < b, rounded to nearest even: the
\* quotient lies in [2^-k, 2^(1-k)), so its significand is a * 2^(SigBits-1+k) / b
F64Div(a, b) ==
    IF a = 0 THEN F64Zero
    ELSE LET k     == ScaleUp(a, b, 0)
             shift == SigBits - 1 + k
             num   == <<a * Pow2(shift % LimbBits)>>
                      \o [i \in 1..(shift \div LimbBits) |-> 0]
             q     == DivSmall(num, b)
         IN  F64Round(q[1], q[2], b, -shift)

\* float(k) * f for a natural k (exact as a float) and a float f, rounded to nearest even
F64MulNat(k, f) ==
    IF k = 0 \/ f.sig = <<>> THEN F64Zero
    ELSE LET p    == StripZeros(MulSmall(f.sig, k))
             drop == LimbsBitLength(p) - SigBits
             q    == DivSmall(p, Pow2(drop))
         IN  F64Round(q[1], q[2], Pow2(drop), f.exp + drop)

\* int(f) for a float 0 <= f < 2^31: the integer part, sig / 2^(-exp)
F64Trunc(f) ==
    IF f.sig = <<>> \/ SigBits + f.exp <= 0 THEN 0
    ELSE LET whole == SubSeq(f.sig, 1, Len(f.sig) - ((-f.exp) \div LimbBits))
         IN  LimbsToNat(DivSmall(whole, Pow2((-f.exp) % LimbBits))[1])

---------------------------------------------------------------------------
(* FinancialAnalysisCalculator: the static tables                          *)

None == "None"

\* the five cost components, in the order of the dict of _define_cost_components
Components == <<"recruitment", "training", "productivity_loss", "separation",
                "opportunity_cost">>

ComponentSet == {Components[i] : i \in 1..Len(Components)}

DefineCostComponents ==
    [c \in ComponentSet |->
        CASE c = "recruitment" ->
                [default_multiplier |-> Rat(2, 10), indonesia_multiplier |-> Rat(18, 100)]
          [] c = "training" ->
                [default_multiplier |-> Rat(15, 100), indonesia_multiplier |-> Rat(12, 100)]
          [] c = "productivity_loss" ->
                [default_multiplier |-> Rat(50, 100), indonesia_multiplier |-> Rat(45, 100)]
          [] c = "separation" ->
                [default_multiplier |-> Rat(5, 100), indonesia_multiplier |-> Rat(8, 100)]
          [] c = "opportunity_cost" ->
                [default_multiplier |-> Rat(10, 100), indonesia_multiplier |-> Rat(7, 100)]]

GetExchangeRates ==
    [USD_to_IDR |-> RatInt(15750),
     EUR_to_IDR |-> RatInt(17200),
     IDR_to_USD |-> Rat(1, 15750)]

DefineRegionalConfigs ==
    [r \in {"GLOBAL", "INDONESIA"} |->
        IF r = "GLOBAL"
        THEN [currency |-> "USD", cost_base |-> "global"]
        ELSE [currency |-> "IDR", cost_base |-> "indonesia",
              benefits |-> [thr_bonus |-> Rat(83, 1000),
                            jamsostek |-> Rat(54, 1000),
                            severance_multiplier |-> RatInt(2)]]]

\* FinancialAnalysisCalculator.__init__
NewCalculator ==
    [cost_components  |-> DefineCostComponents,
     exchange_rates   |-> GetExchangeRates,
     regional_configs |-> DefineRegionalConfigs]

\* the outcome of a call: a returned value or a raised exception
Return(v) == [kind |-> "return", val |-> v]

Raise(e) == [kind |-> "raise", exc |-> e]

\* the custom_multipliers argument: None, or a dict from components to multipliers
NoMultipliers == [is_none |-> TRUE, m |-> [c \in {} |-> RatInt(0)]]

Multipliers(m) == [is_none |-> FALSE, m |-> m]

---------------------------------------------------------------------------
(* FinancialAnalysisCalculator.calculate_attrition_cost                    *)

\* the mutation of RegionalConfig whose default is the INDONESIA entry
RegionalConfigIndonesia(self, region) ==
    IF region \in DOMAIN self.regional_configs
    THEN self.regional_configs[region]
    ELSE self.regional_configs["INDONESIA"]

\* self.regional_configs.get(region, self.regional_configs["GLOBAL"])
RegionalConfig(self, region) ==
    IF region \in DOMAIN self.regional_configs
    THEN self.regional_configs[region]
    ELSE self.regional_configs["GLOBAL"]

\* currency or regional_config["currency"]
BaseCurrency(self, region, currency) ==
    IF currency # None THEN currency ELSE RegionalConfig(self, region).currency

\* the mutation of ResolveMultipliers that lets the region decide before the override
ResolveMultipliersRegionFirst(self, region, custom_multipliers) ==
    IF region = "INDONESIA"
    THEN [k \in DOMAIN self.cost_components |->
               self.cost_components[k].indonesia_multiplier]
    ELSE IF ~custom_multipliers.is_none /\ DOMAIN custom_multipliers.m # {}
         THEN custom_multipliers.m
         ELSE [k \in DOMAIN self.cost_components |->
                    self.cost_components[k].default_multiplier]

\* the multipliers dict the loop reads: if custom_multipliers / elif INDONESIA / else
ResolveMultipliers(self, region, custom_multipliers) ==
    IF ~custom_multipliers.is_none /\ DOMAIN custom_multipliers.m # {}
    THEN custom_multipliers.m
    ELSE IF region = "INDONESIA"
         THEN [k \in DOMAIN self.cost_components |->
                    self.cost_components[k].indonesia_multiplier]
         ELSE [k \in DOMAIN self.cost_components |->
                    self.cost_components[k].default_multiplier]

\* multipliers.get(component, details["default_multiplier"])
MultiplierOf(self, multipliers, component) ==
    IF component \in DOMAIN multipliers
    THEN multipliers[component]
    ELSE self.cost_components[component].default_multiplier

\* severance_cost + thr_cost + jamsostek_cost of the INDONESIA separation component
StatutoryCost(annual_salary, benefits) ==
    RatAdd(RatAdd(RatDiv(RatMul(annual_salary, benefits.severance_multiplier),
                         RatInt(12)),
                  RatMul(annual_salary, benefits.thr_bonus)),
           RatMul(annual_salary, benefits.jamsostek))

\* the mutation of ComponentCost where the statutory terms replace the base amount
ComponentCostReplaced(self, annual_salary, region, multipliers, component) ==
    LET multiplier == MultiplierOf(self, multipliers, component)
        cost       == RatMul(annual_salary, multiplier)
    IN  IF region = "INDONESIA" /\ component = "separation"
        THEN StatutoryCost(annual_salary, RegionalConfig(self, region).benefits)
        ELSE cost

\* the cost of one component: one pass of the loop body up to cost += ...
ComponentCost(self, annual_salary, region, multipliers, component) ==
    LET multiplier == MultiplierOf(self, multipliers, component)
        cost       == RatMul(annual_salary, multiplier)
    IN  IF region = "INDONESIA" /\ component = "separation"
        THEN RatAdd(cost, StatutoryCost(annual_salary,
                                        RegionalConfig(self, region).benefits))
        ELSE cost

\* (x / annual_salary) * 100
PercentOf(x, annual_salary) == RatMul(RatDiv(x, annual_salary), RatInt(100))

\* the mutation of TotalCost that assigns where the loop adds
TotalCostAssigned(self, annual_salary, region, multipliers, i) ==
    IF i = 0 THEN RatInt(0)
    ELSE ComponentCost(self, annual_salary, region, multipliers, Components[i])

RECURSIVE TotalCost(_, _, _, _, _)
\* total_cost after the first i passes of the loop
TotalCost(self, annual_salary, region, multipliers, i) ==
    IF i = 0 THEN RatInt(0)
    ELSE RatAdd(TotalCost(self, annual_salary, region, multipliers, i - 1),
                ComponentCost(self, annual_salary, region, multipliers, Components[i]))

\* self.exchange_rates.get(f"{base_currency}_to_IDR", 1) if base_currency != "IDR" else 1
ExchangeRate(self, base_currency) ==
    IF base_currency = "USD" THEN self.exchange_rates.USD_to_IDR
    ELSE IF base_currency = "EUR" THEN self.exchange_rates.EUR_to_IDR
    ELSE RatInt(1)

\* annual_salary is a rational, in thousands.  The first pass of the loop divides
\* by it (the percentage of the component), so a zero salary raises there.
CalculateAttritionCost(self, annual_salary, region, currency, custom_multipliers) ==
    LET multipliers == ResolveMultipliers(self, region, custom_multipliers)
        total_cost  == TotalCost(self, annual_salary, region, multipliers,
                                 Len(Components))
    IN  IF annual_salary.n = 0 THEN Raise("ZeroDivisionError")
        ELSE Return(
          [total_cost |-> total_cost,
           breakdown  |->
               [c \in ComponentSet |->
                   LET cost == ComponentCost(self, annual_salary, region,
                                             multipliers, c)
                   IN  [amount |-> cost,
                        percentage |-> PercentOf(cost, annual_salary)]],
           currency   |-> BaseCurrency(self, region, currency),
           region     |-> region,
           annual_salary |-> annual_salary,
           cost_as_percentage_of_salary |-> PercentOf(total_cost, annual_salary),
           exchange_rate |-> ExchangeRate(self, BaseCurrency(self, region, currency))])

---------------------------------------------------------------------------
(* FinancialAnalysisCalculator.estimate_annual_savings                     *)

\* int(total_employees * (attrition_rate / 100)) in binary64.  The rate is given in
\* halves of a percent (the slider's step): attrition_rate = rate2 / 2 is exact as a
\* float, and attrition_rate / 100 is the real number rate2 / 200 rounded once.
AnnualAttritionCases(total_employees, rate2) ==
    F64Trunc(F64MulNat(total_employees, F64Div(rate2, 200)))

\* the conversions dict: if base_currency == "IDR" / elif base_currency == "USD"
Conversions(self, base_currency, annual_savings) ==
    IF base_currency = "IDR"
    THEN [k \in {"USD"} |-> RatMul(annual_savings, self.exchange_rates.IDR_to_USD)]
    ELSE IF base_currency = "USD"
         THEN [k \in {"IDR"} |-> RatMul(annual_savings, self.exchange_rates.USD_to_IDR)]
         ELSE [k \in {} |-> RatInt(0)]

\* the mutation of SavingsPercentage that leaves the ratio a fraction of one
SavingsPercentageAsFraction(annual_savings, current_annual_cost) ==
    IF current_annual_cost.n = 0 THEN Raise("ZeroDivisionError")
    ELSE Return(RatDiv(annual_savings, current_annual_cost))

\* annual_savings / current_annual_cost * 100; a zero current_annual_cost raises
SavingsPercentage(annual_savings, current_annual_cost) ==
    IF current_annual_cost.n = 0 THEN Raise("ZeroDivisionError")
    ELSE Return(RatMul(RatDiv(annual_savings, current_annual_cost), RatInt(100)))

EstimateAnnualSavings(self, total_employees, rate2, avg_salary, prediction_accuracy, intervention_effectiveness, region, currency) ==
    LET base_currency == BaseCurrency(self, region, currency)
        annual_attrition_cases == AnnualAttritionCases(total_employees, rate2)
        cost == CalculateAttritionCost(self, avg_salary, region, base_currency,
                                       NoMultipliers)
    IN  IF cost.kind = "raise" THEN cost
        ELSE
          LET cost_per_case       == cost.val.total_cost
              current_annual_cost == RatMul(RatInt(annual_attrition_cases), cost_per_case)
              predicted_cases     == RatMul(RatInt(annual_attrition_cases),
                                            Rat(prediction_accuracy, 100))
              prevented_cases     == RatMul(predicted_cases,
                                            Rat(intervention_effectiveness, 100))
              annual_savings      == RatMul(prevented_cases, cost_per_case)
              percentage == SavingsPercentage(annual_savings, current_annual_cost)
          IN  IF percentage.kind = "raise" THEN percentage
              ELSE Return(
                [current_annual_cost    |-> current_annual_cost,
                 annual_attrition_cases |-> annual_attrition_cases,
                 predicted_cases        |-> predicted_cases,
                 prevented_cases        |-> prevented_cases,
                 annual_savings         |-> annual_savings,
                 savings_percentage     |-> percentage.val,
                 cost_per_case          |-> cost_per_case,
                 currency               |-> base_currency,
                 region                 |-> region,
                 conversions            |-> Conversions(self, base_currency,
                                                        annual_savings),
                 annual_salary          |-> avg_salary])


---------------------------------------------------------------------------
(* load_model_components, under @st.cache_resource                         *)

\* the artifacts in the order the body loads them
Artifacts == <<"model", "scaler", "feature_names", "metadata">>

ArtifactSet == {Artifacts[i] : i \in 1..Len(Artifacts)}

FileStates == {"ok", "missing", "corrupt"}

\* the feature names a feature_names.pkl of this model holds
TrainedFeatureNames ==
    <<"Age", "JobSatisfaction", "WorkLifeBalance", "OverTime", "OverTime_Yes",
      "MaritalStatus_Single", "Department_Sales">>

\* what the four files deserialize to: return model, scaler, feature_names, metadata
ModelComponents ==
    [model |-> "classifier", scaler |-> "scaler",
     feature_names |-> TrainedFeatureNames,
     metadata |-> [model_type |-> "trained"]]

\* None where a sequence may stand (feature_names)
NoNames == <<>>

\* return None, None, None, {"model_type": "Demo", "test_accuracy": 0.87, "roc_auc": 0.82}
DemoComponents ==
    [model |-> None, scaler |-> None, feature_names |-> NoNames,
     metadata |-> [model_type |-> "Demo", test_accuracy |-> Rat(87, 100),
                   roc_auc |-> Rat(82, 100)]]

RECURSIVE LoadFrom(_, _)
\* the body from its i-th load on: a missing file raises FileNotFoundError, which
\* the except clause turns into the demo components; a file that does not
\* deserialize raises another exception, which no clause catches
LoadFrom(disk, i) ==
    IF i > Len(Artifacts) THEN Return(ModelComponents)
    ELSE IF disk[Artifacts[i]] = "missing" THEN Return(DemoComponents)
    ELSE IF disk[Artifacts[i]] = "corrupt" THEN Raise("UnpicklingError")
    ELSE LoadFrom(disk, i + 1)

\* the body of load_model_components on the files disk
LoadBody(disk) == LoadFrom(disk, 1)

NotCached == [loaded |-> FALSE]

Cached(v) == [loaded |-> TRUE, value |-> v]

\* what st.cache_resource keeps after a call of outcome ret: a returned value is
\* kept, a raised exception is not
CacheAfter(memo, ret) ==
    IF memo.loaded THEN memo
    ELSE IF ret.kind = "return" THEN Cached(ret.val) ELSE memo

\* load_model_components(): the kept value, or else the body
LoadModelComponents(memo, disk) ==
    IF memo.loaded THEN Return(memo.value) ELSE LoadBody(disk)

---------------------------------------------------------------------------
(* prepare_model_input and make_prediction                                 *)

\* the mutation of Get in which an absent key reads as no code at all
GetNoDefault(hr_input, key, default) ==
    IF key \in DOMAIN hr_input THEN hr_input[key] ELSE -1

\* hr_input.get(key, default)
Get(hr_input, key, default) ==
    IF key \in DOMAIN hr_input THEN hr_input[key] ELSE default

\* the keys of feature_mapping (each maps to the column of its own name)
FeatureMapping ==
    {"Age", "MonthlyIncome", "YearsAtCompany", "YearsInCurrentRole",
     "YearsSinceLastPromotion", "DistanceFromHome", "PercentSalaryHike", "JobLevel",
     "StockOptionLevel", "JobSatisfaction", "WorkLifeBalance",
     "EnvironmentSatisfaction", "PerformanceRating"}

\* the mutation of CategoricalMappings whose single flag answers to code 2
CategoricalMappingsShifted(hr_input) ==
    [k \in {"Gender_Male", "MaritalStatus_Married", "MaritalStatus_Single",
            "OverTime_Yes", "BusinessTravel_Travel_Frequently",
            "BusinessTravel_Travel_Rarely"} |->
        CASE k = "Gender_Male" ->
                IF Get(hr_input, "Gender", 0) = 1 THEN 1 ELSE 0
          [] k = "MaritalStatus_Married" ->
                IF Get(hr_input, "MaritalStatus", 0) = 1 THEN 1 ELSE 0
          [] k = "MaritalStatus_Single" ->
                IF Get(hr_input, "MaritalStatus", 0) = 2 THEN 1 ELSE 0
          [] k = "OverTime_Yes" ->
                IF Get(hr_input, "OverTime", 0) = 1 THEN 1 ELSE 0
          [] k = "BusinessTravel_Travel_Frequently" ->
                IF Get(hr_input, "BusinessTravel", 0) = 2 THEN 1 ELSE 0
          [] k = "BusinessTravel_Travel_Rarely" ->
                IF Get(hr_input, "BusinessTravel", 0) = 1 THEN 1 ELSE 0]

\* the categorical_mappings dict
CategoricalMappings(hr_input) ==
    [k \in {"Gender_Male", "MaritalStatus_Married", "MaritalStatus_Single",
            "OverTime_Yes", "BusinessTravel_Travel_Frequently",
            "BusinessTravel_Travel_Rarely"} |->
        CASE k = "Gender_Male" ->
                IF Get(hr_input, "Gender", 0) = 1 THEN 1 ELSE 0
          [] k = "MaritalStatus_Married" ->
                IF Get(hr_input, "MaritalStatus", 0) = 1 THEN 1 ELSE 0
          [] k = "MaritalStatus_Single" ->
                IF Get(hr_input, "MaritalStatus", 0) = 0 THEN 1 ELSE 0
          [] k = "OverTime_Yes" ->
                IF Get(hr_input, "OverTime", 0) = 1 THEN 1 ELSE 0
          [] k = "BusinessTravel_Travel_Frequently" ->
                IF Get(hr_input, "BusinessTravel", 0) = 2 THEN 1 ELSE 0
          [] k = "BusinessTravel_Travel_Rarely" ->
                IF Get(hr_input, "BusinessTravel", 0) = 1 THEN 1 ELSE 0]

\* pd.DataFrame(index=[0], columns=feature_names).fillna(0): the one-row frame, as
\* the sequence of its columns, each with its name and its value
ZeroFrame(feature_names) ==
    [i \in 1..Len(feature_names) |-> [column |-> feature_names[i], value |-> 0]]

\* the mutation of CopyMapped that copies every attribute a column is named after
CopyEveryName(frame, hr_input) ==
    [i \in DOMAIN frame |->
        IF frame[i].column \in DOMAIN hr_input
        THEN [frame[i] EXCEPT !.value = hr_input[frame[i].column]]
        ELSE frame[i]]

\* the loop over feature_mapping: a column named as a key of feature_mapping that
\* is in hr_input takes the attribute's value
CopyMapped(frame, hr_input) ==
    [i \in DOMAIN frame |->
        IF frame[i].column \in FeatureMapping /\ frame[i].column \in DOMAIN hr_input
        THEN [frame[i] EXCEPT !.value = hr_input[frame[i].column]]
        ELSE frame[i]]

\* the loop over categorical_mappings: a column named as one of its keys takes the flag
SetFlags(frame, hr_input) ==
    [i \in DOMAIN frame |->
        IF frame[i].column \in DOMAIN CategoricalMappings(hr_input)
        THEN [frame[i] EXCEPT !.value = CategoricalMappings(hr_input)[frame[i].column]]
        ELSE frame[i]]

\* prepare_model_input(hr_input, feature_names)
PrepareModelInput(hr_input, feature_names) ==
    SetFlags(CopyMapped(ZeroFrame(feature_names), hr_input), hr_input)

\* the mutation of Clamp that keeps the lower bound only
ClampBelow(risk_score) ==
    IF RatLess(risk_score, Rat(5, 100)) THEN Rat(5, 100) ELSE risk_score

\* min(max(risk_score, 0.05), 0.95)
Clamp(risk_score) ==
    LET lo == IF RatLess(risk_score, Rat(5, 100)) THEN Rat(5, 100) ELSE risk_score
    IN  IF RatLess(Rat(95, 100), lo) THEN Rat(95, 100) ELSE lo

\* the mutation of RiskScore with the weights of the two scales exchanged
RiskScoreSwapped(hr_input) ==
    RatAdd(RatAdd(RatAdd(Rat(3, 10),
                         RatMul(RatInt(Get(hr_input, "OverTime", 0)), Rat(2, 10))),
                  RatMul(RatSub(RatInt(1), Rat(Get(hr_input, "JobSatisfaction", 3), 4)),
                         Rat(2, 10))),
           RatMul(RatSub(RatInt(1), Rat(Get(hr_input, "WorkLifeBalance", 3), 4)),
                  Rat(3, 10)))

\* the risk_score of the demo mode, before the clamp
RiskScore(hr_input) ==
    RatAdd(RatAdd(RatAdd(Rat(3, 10),
                         RatMul(RatInt(Get(hr_input, "OverTime", 0)), Rat(2, 10))),
                  RatMul(RatSub(RatInt(1), Rat(Get(hr_input, "JobSatisfaction", 3), 4)),
                         Rat(3, 10))),
           RatMul(RatSub(RatInt(1), Rat(Get(hr_input, "WorkLifeBalance", 3), 4)),
                  Rat(2, 10)))

\* the mutation of DemoPrediction whose first entry is the complement of the score
\* before the clamp
DemoPredictionRawComplement(hr_input) ==
    LET risk_score == Clamp(RiskScore(hr_input))
    IN  [null             |-> FALSE,
         prediction       |-> IF RatLess(Rat(5, 10), risk_score) THEN 1 ELSE 0,
         prediction_proba |-> <<RatSub(RatInt(1), RiskScore(hr_input)), risk_score>>,
         model_input      |-> [scaled |-> FALSE, frame |-> NoNames]]

\* the branch if model is None: return prediction, prediction_proba, None
DemoPrediction(hr_input) ==
    LET risk_score == Clamp(RiskScore(hr_input))
    IN  [null             |-> FALSE,
         prediction       |-> IF RatLess(Rat(5, 10), risk_score) THEN 1 ELSE 0,
         prediction_proba |-> <<RatSub(RatInt(1), risk_score), risk_score>>,
         model_input      |-> [scaled |-> FALSE, frame |-> NoNames]]

\* return None, None, None of the except clause
NullPrediction == [null |-> TRUE]

\* env is what the scaler and the classifier do in one call of make_prediction:
\* env.raises names the call that raises ("transform", "predict", "predict_proba")
\* or is "none"; env.predict and env.predict_proba are the values returned.

\* the calls make_prediction makes on the scaler and the classifier, in order; the
\* first one that raises is the last one made
LibraryCalls(model, scaler, env) ==
    IF model = None THEN <<>>
    ELSE LET transform == IF scaler # None THEN <<"transform">> ELSE <<>>
         IN  IF scaler # None /\ env.raises = "transform" THEN transform
             ELSE IF env.raises = "predict" THEN transform \o <<"predict">>
             ELSE transform \o <<"predict", "predict_proba">>

\* the mutation of MakePrediction whose except clause does not cover predict_proba
MakePredictionUncaught(model, scaler, hr_input, feature_names, env) ==
    IF model = None THEN Return(DemoPrediction(hr_input))
    ELSE IF scaler # None /\ env.raises = "transform" THEN Return(NullPrediction)
    ELSE IF env.raises = "predict" THEN Return(NullPrediction)
    ELSE Raise("Exception")

\* make_prediction(model, scaler, hr_input, feature_names): the try block, and the
\* except Exception clause, which ends every raise in return None, None, None
MakePrediction(model, scaler, hr_input, feature_names, env) ==
    IF model = None THEN Return(DemoPrediction(hr_input))
    ELSE IF scaler # None /\ env.raises = "transform" THEN Return(NullPrediction)
    ELSE IF env.raises = "predict" THEN Return(NullPrediction)
    ELSE IF env.raises = "predict_proba" THEN Return(NullPrediction)
    ELSE Return(
         [null             |-> FALSE,
          prediction       |-> env.predict,
          prediction_proba |-> env.predict_proba,
          model_input      |->
              [scaled |-> scaler # None,
               frame  |-> PrepareModelInput(hr_input, feature_names)]])

---------------------------------------------------------------------------
(* The calculator's callers: the inputs a call is made with                *)

\* total_employees 0, 10 (the form's least), 1000 and the hundreds up to here
MaxHundreds == 2

\* the largest salary (thousands) the form takes in USD; larger ones are IDR salaries
MaxUsdSalary == 300

\* annual salaries in thousands: non-positive ones, USD ones, IDR ones
Salaries == {-60, 0, 60, 65, 30000, 120000}

Regions == {"GLOBAL", "INDONESIA", "EUROPE"}

Currencies == {None, "IDR", "EUR"}

\* override multipliers that are no default of any component
MultiplierValues == {Rat(11, 100), Rat(25, 100)}

\* custom_multipliers: None, {} and the dicts over some of the components, and the
\* dicts over all five with either value for each
Overrides ==
    {NoMultipliers}
    \cup {Multipliers(m) : m \in UNION {[S -> {Rat(11, 100)}] : S \in SUBSET ComponentSet}}
    \cup {Multipliers(m) : m \in [ComponentSet -> MultiplierValues]}

Employees == {0, 10, 1000} \cup {100 * k : k \in 1..MaxHundreds}

\* attrition rates in halves of a percent: 0, 1.0, 16.0, 28.5, 29.0 and 50.0 %
RateHalves == {0, 2, 32, 57, 58, 100}

Accuracies == {0, 87, 100}

Effectivenesses == {0, 30, 100}

\* the attribute codes of a request: the codes of the forms, 0 (an unknown value),
\* codes above the scales, and very large codes of either sign
MaxCode == 4

BigCode == 1000

Codes == 0..MaxCode \cup {-BigCode, BigCode}

\* the attributes make_prediction reads in demo mode
HrKeys == {"OverTime", "JobSatisfaction", "WorkLifeBalance"}

HrInputs == UNION {[S -> Codes] : S \in SUBSET HrKeys}

\* the probability of class 1 a classifier returns, in tenths
ProbaTenths == {0, 3, 10}

\* what the scaler and the classifier may do in one call: raise, or return a label
\* and a row of predict_proba (a probability distribution over the two classes)
Envs ==
    {[raises |-> r] : r \in {"transform", "predict"}}
    \cup {[raises |-> "predict_proba", predict |-> l] : l \in {0, 1}}
    \cup {[raises |-> "none", predict |-> l,
           predict_proba |-> <<Rat(10 - p, 10), Rat(p, 10)>>] :
             l \in {0, 1}, p \in ProbaTenths}

QuietEnv == [raises |-> "none"]

AllFiles(st) == [a \in ArtifactSet |-> st]

NoCall == [op |-> "none"]

\* st.session_state of a browser session before its first script run
NewSession == [k \in {} |-> None]

\* nothing rendered yet
NoView == [page |-> "none", tabs |-> <<>>]

\* no load_model_components call in the current script run; ran counts the
\* executions of its body since the process started and first keeps the outcome
\* of the first call (a sequence of none or one)
NoLoad == [op |-> "none", ran |-> 0, first |-> <<>>]

\* the body of load_model_components is followed through this many executions
MaxBodyRuns == 3

\* the state a process starts in, the files of the deployment given
Start(disk) ==
    /\ calc = NewCalculator
    /\ fin = NoCall
    /\ files = disk
    /\ cache = NotCached
    /\ load = NoLoad
    /\ pred = NoCall
    /\ session = NewSession
    /\ view = NoView

Init == \E disk \in [ArtifactSet -> FileStates] : Start(disk)

CallCalculateAttritionCost ==
    /\ fin.op = "none"
    /\ \E annual_salary \in Salaries, region \in Regions, currency \in Currencies,
          custom_multipliers \in Overrides :
         fin' = [op   |-> "calculate_attrition_cost",
                 args |-> [annual_salary |-> annual_salary, region |-> region,
                           currency |-> currency,
                           custom_multipliers |-> custom_multipliers],
                 ret  |-> CalculateAttritionCost(calc, RatInt(annual_salary), region,
                                                 currency, custom_multipliers)]
    /\ UNCHANGED <<calc, files, cache, load, pred, session, view>>

CallEstimateAnnualSavings ==
    /\ fin.op = "none"
    /\ \E total_employees \in Employees, rate2 \in RateHalves, avg_salary \in Salaries,
          prediction_accuracy \in Accuracies,
          intervention_effectiveness \in Effectivenesses,
          region \in Regions, currency \in Currencies :
         /\ avg_salary > MaxUsdSalary => BaseCurrency(calc, region, currency) # "USD"
         /\ fin' = [op   |-> "estimate_annual_savings",
                    args |-> [total_employees |-> total_employees, rate2 |-> rate2,
                              avg_salary |-> avg_salary,
                              prediction_accuracy |-> prediction_accuracy,
                              intervention_effectiveness |-> intervention_effectiveness,
                              region |-> region, currency |-> currency],
                    ret  |-> EstimateAnnualSavings(calc, total_employees, rate2,
                                 RatInt(avg_salary), prediction_accuracy,
                                 intervention_effectiveness, region, currency)]
    /\ UNCHANGED <<calc, files, cache, load, pred, session, view>>

\* the script run ends: its results are dropped, and the next run starts afresh
\* with a calculator of its own (calculator = FinancialAnalysisCalculator())
RerunFinance ==
    /\ fin.op # "none"
    /\ fin' = NoCall
    /\ calc' = NewCalculator
    /\ UNCHANGED <<files, cache, load, pred, session, view>>

NextFinance ==
    \/ CallCalculateAttritionCost
    \/ CallEstimateAnnualSavings
    \/ RerunFinance

\* the calculator alone (it reads no artifact)
InitFinance == Start(AllFiles("ok"))

SpecFinance == InitFinance /\ [][NextFinance]_vars

---------------------------------------------------------------------------
(* main_app: model, scaler, feature_names, metadata = load_model_components() *)

\* the call of a script run; the files are read only when nothing is kept
CallLoadModelComponents ==
    /\ load.op = "none"
    /\ cache.loaded \/ load.ran < MaxBodyRuns
    /\ LET ret == LoadModelComponents(cache, files) IN
         /\ load' = [op |-> "load_model_components", hit |-> cache.loaded,
                     disk |-> files, ret |-> ret,
                     ran |-> IF cache.loaded THEN load.ran ELSE load.ran + 1,
                     first |-> IF load.first = <<>> THEN <<ret>> ELSE load.first]
         /\ cache' = CacheAfter(cache, ret)
    /\ UNCHANGED <<calc, fin, files, pred, session, view>>

\* the script run ends (or the exception of the load ended it)
RerunLoad ==
    /\ load.op # "none"
    /\ load' = [op |-> "none", ran |-> load.ran, first |-> load.first]
    /\ UNCHANGED <<calc, fin, files, cache, pred, session, view>>

\* the deployment changes a file between two script runs
ChangeFile ==
    /\ load.op = "none"
    /\ \E a \in ArtifactSet, st \in FileStates :
         /\ files[a] # st
         /\ files' = [files EXCEPT ![a] = st]
    /\ UNCHANGED <<calc, fin, cache, load, pred, session, view>>

NextLoad == CallLoadModelComponents \/ RerunLoad \/ ChangeFile

SpecLoad == Init /\ [][NextLoad]_vars

---------------------------------------------------------------------------
(* main_app: make_prediction(model, scaler, hr_input, feature_names)       *)

\* the request of the assessment tab, with the components the script run loaded
CallMakePrediction ==
    /\ pred.op = "none"
    /\ cache.loaded
    /\ \E hr_input \in HrInputs,
          env \in (IF cache.value.model = None THEN {QuietEnv} ELSE Envs) :
         pred' = [op   |-> "make_prediction",
                  args |-> [model |-> cache.value.model,
                            scaler |-> cache.value.scaler,
                            hr_input |-> hr_input,
                            feature_names |-> cache.value.feature_names],
                  env  |-> env,
                  calls |-> LibraryCalls(cache.value.model, cache.value.scaler, env),
                  ret  |-> MakePrediction(cache.value.model, cache.value.scaler,
                                          hr_input, cache.value.feature_names, env)]
    /\ UNCHANGED <<calc, fin, files, cache, load, session, view>>

RerunPrediction ==
    /\ pred.op # "none"
    /\ pred' = NoCall
    /\ UNCHANGED <<calc, fin, files, cache, load, session, view>>

NextPredict == CallMakePrediction \/ RerunPrediction

---------------------------------------------------------------------------
(* make_prediction: model_input = prepare_model_input(hr_input, feature_names) *)

\* the names a feature_names.pkl may list: attributes that feature_mapping copies
\* (Age), attributes it does not list, the six derived flags, and a column neither
\* loop knows (Department_Sales)
SlotNames ==
    <<"Age", "Gender", "Gender_Male", "MaritalStatus", "MaritalStatus_Married",
      "MaritalStatus_Single", "OverTime", "OverTime_Yes", "BusinessTravel",
      "BusinessTravel_Travel_Frequently", "BusinessTravel_Travel_Rarely",
      "Department_Sales">>

Reverse(names) == [i \in 1..Len(names) |-> names[Len(names) + 1 - i]]

\* the schemas: the runs of SlotNames, the empty one and the whole included, in
\* either order
Schemas ==
    LET runs == {SubSeq(SlotNames, i, j) : i \in 1..Len(SlotNames),
                                            j \in 0..Len(SlotNames)}
    IN  runs \cup {Reverse(r) : r \in runs}

\* the codes create_hr_input_form gives each attribute; Nickname is an attribute
\* no schema knows
AttributeCodes ==
    [k \in {"Age", "Gender", "MaritalStatus", "OverTime", "BusinessTravel", "Nickname"} |->
        CASE k = "Age" -> {30}
          [] k = "Gender" -> {0, 1}
          [] k = "MaritalStatus" -> {0, 1, 2}
          [] k = "OverTime" -> {0, 1}
          [] k = "BusinessTravel" -> {0, 1, 2}
          [] k = "Nickname" -> {1}]

\* the requests: some of the attributes, each with one of its codes
AttributeSets ==
    UNION {{h \in [S -> UNION {AttributeCodes[k] : k \in S}] :
                \A k \in S : h[k] \in AttributeCodes[k]} :
              S \in SUBSET DOMAIN AttributeCodes}

CallPrepareModelInput ==
    /\ pred.op = "none"
    /\ \E hr_input \in AttributeSets, feature_names \in Schemas :
         pred' = [op   |-> "prepare_model_input",
                  args |-> [hr_input |-> hr_input, feature_names |-> feature_names],
                  ret  |-> Return(PrepareModelInput(hr_input, feature_names))]
    /\ UNCHANGED <<calc, fin, files, cache, load, session, view>>

NextPrepare == CallPrepareModelInput \/ RerunPrediction

SpecPrepare == Start(AllFiles("ok")) /\ [][NextPrepare]_vars

\* the state after the load of line 898, on a deployment with or without its files
InitPredict ==
    \E disk \in {AllFiles("ok"), AllFiles("missing")} :
        /\ calc = NewCalculator
        /\ fin = NoCall
        /\ files = disk
        /\ cache = CacheAfter(NotCached, LoadBody(disk))
        /\ load = [op |-> "none", ran |-> 1, first |-> <<LoadBody(disk)>>]
        /\ pred = NoCall
        /\ session = NewSession
        /\ view = NoView

SpecPredict == InitPredict /\ [][NextPredict]_vars

---------------------------------------------------------------------------
(* Requests in any order on one calculator and one set of loaded artifacts *)

\* the mutation of CalculatorAfter in which the call keeps the override in the table
CalculatorAfterStoring(self, custom_multipliers) ==
    [self EXCEPT !.cost_components =
        [c \in ComponentSet |->
            IF c \in DOMAIN custom_multipliers.m
            THEN [@[c] EXCEPT !.default_multiplier = custom_multipliers.m[c]]
            ELSE @[c]]]

\* the calculator after calculate_attrition_cost or estimate_annual_savings: neither
\* method assigns an attribute of self or an entry of one of its tables
CalculatorAfter(self, custom_multipliers) == self

\* a dict of the caller (custom_multipliers, hr_input) after a call that was given
\* it: the callee reads it with get, `in` and [] only
ArgumentAfter(argument) == argument

RequestSalaries == {60, 120000}

RequestRegions == {"GLOBAL", "INDONESIA"}

RequestOverrides ==
    {NoMultipliers,
     Multipliers([c \in {"training"} |-> Rat(11, 100)]),
     Multipliers([c \in ComponentSet |-> Rat(25, 100)])}

RequestAttributes ==
    {[k \in {} |-> 0],
     [k \in HrKeys |-> 1],
     [k \in {"Age", "OverTime"} |-> IF k = "Age" THEN 30 ELSE 1]}

RequestEnvs ==
    {[raises |-> "predict"],
     [raises |-> "none", predict |-> 0,
      predict_proba |-> <<Rat(7, 10), Rat(3, 10)>>]}

RequestCost ==
    /\ fin.op = "none"
    /\ \E annual_salary \in RequestSalaries, region \in RequestRegions,
          custom_multipliers \in RequestOverrides :
         /\ fin' = [op    |-> "calculate_attrition_cost",
                    args  |-> [annual_salary |-> annual_salary, region |-> region,
                               currency |-> None,
                               custom_multipliers |-> custom_multipliers],
                    after |-> ArgumentAfter(custom_multipliers),
                    ret   |-> CalculateAttritionCost(calc, RatInt(annual_salary),
                                  region, None, custom_multipliers)]
         /\ calc' = CalculatorAfter(calc, custom_multipliers)
    /\ UNCHANGED <<files, cache, load, pred, session, view>>

RequestSavings ==
    /\ fin.op = "none"
    /\ \E avg_salary \in RequestSalaries, region \in RequestRegions :
         /\ avg_salary > MaxUsdSalary => BaseCurrency(calc, region, None) # "USD"
         /\ fin' = [op    |-> "estimate_annual_savings",
                    args  |-> [total_employees |-> 1000, rate2 |-> 32,
                               avg_salary |-> avg_salary,
                               prediction_accuracy |-> 87,
                               intervention_effectiveness |-> 30,
                               region |-> region, currency |-> None],
                    after |-> ArgumentAfter(NoMultipliers),
                    ret   |-> EstimateAnnualSavings(calc, 1000, 32, RatInt(avg_salary),
                                  87, 30, region, None)]
         /\ calc' = CalculatorAfter(calc, NoMultipliers)
    /\ UNCHANGED <<files, cache, load, pred, session, view>>

\* the results are displayed; the calculator and what is loaded stay
FinishFinance ==
    /\ fin.op # "none"
    /\ fin' = NoCall
    /\ UNCHANGED <<calc, files, cache, load, pred, session, view>>

RequestPrediction ==
    /\ pred.op = "none"
    /\ cache.loaded
    /\ \E hr_input \in RequestAttributes,
          env \in (IF cache.value.model = None THEN {QuietEnv} ELSE RequestEnvs) :
         pred' = [op    |-> "make_prediction",
                  args  |-> [model |-> cache.value.model,
                             scaler |-> cache.value.scaler,
                             hr_input |-> hr_input,
                             feature_names |-> cache.value.feature_names],
                  after |-> ArgumentAfter(hr_input),
                  env   |-> env,
                  ret   |-> MakePrediction(cache.value.model, cache.value.scaler,
                                           hr_input, cache.value.feature_names, env)]
    /\ UNCHANGED <<calc, fin, files, cache, load, session, view>>

RequestModelInput ==
    /\ pred.op = "none"
    /\ cache.loaded
    /\ cache.value.model # None
    /\ \E hr_input \in RequestAttributes :
         pred' = [op    |-> "prepare_model_input",
                  args  |-> [hr_input |-> hr_input,
                             feature_names |-> cache.value.feature_names],
                  after |-> ArgumentAfter(hr_input),
                  ret   |-> Return(PrepareModelInput(hr_input,
                                                     cache.value.feature_names))]
    /\ UNCHANGED <<calc, fin, files, cache, load, session, view>>

NextRequests ==
    \/ RequestCost
    \/ RequestSavings
    \/ FinishFinance
    \/ RequestPrediction
    \/ RequestModelInput
    \/ RerunPrediction

SpecRequests == InitPredict /\ [][NextRequests]_vars

---------------------------------------------------------------------------
(* create_financial_analysis_form and display_financial_results            *)

\* percents the five sliders of the form can be set to: the value each starts at
\* and another one of its range
SliderPercents ==
    [c \in ComponentSet |->
        CASE c = "recruitment" -> {20, 10}
          [] c = "training" -> {15}
          [] c = "productivity_loss" -> {50, 25}
          [] c = "separation" -> {8, 5}
          [] c = "opportunity_cost" -> {10}]

\* custom_multipliers of the form: None with the regional defaults ticked, else the
\* five sliders / 100
FormMultipliers ==
    {NoMultipliers}
    \cup {Multipliers([c \in ComponentSet |-> Rat(percent[c], 100)]) :
            percent \in {q \in [ComponentSet -> UNION {SliderPercents[c] : c \in ComponentSet}] :
                            \A c \in ComponentSet : q[c] \in SliderPercents[c]}}

\* avg_annual_salary of the form (thousands), in the range of the region's input
FormSalaries(region) ==
    IF region = "INDONESIA" THEN {30000, 120000} ELSE {20, 60, MaxUsdSalary}

\* the dict create_financial_analysis_form returns
FinancialParams ==
    {[total_employees |-> total_employees, rate2 |-> rate2, avg_salary |-> avg_salary,
      region |-> region, currency |-> RegionalConfig(NewCalculator, region).currency,
      prediction_accuracy |-> 87, intervention_effectiveness |-> 30,
      custom_multipliers |-> custom_multipliers] :
        total_employees \in Employees \ {0}, rate2 \in RateHalves \ {0},
        region \in {"GLOBAL", "INDONESIA"},
        avg_salary \in FormSalaries("GLOBAL") \cup FormSalaries("INDONESIA"),
        custom_multipliers \in FormMultipliers}

\* display_financial_results: the two calls to the calculator, and the pair returned
DisplayFinancialResults(financial_params, calculator) ==
    LET cost_analysis ==
            CalculateAttritionCost(calculator, RatInt(financial_params.avg_salary),
                financial_params.region, financial_params.currency,
                financial_params.custom_multipliers)
        savings_analysis ==
            EstimateAnnualSavings(calculator, financial_params.total_employees,
                financial_params.rate2, RatInt(financial_params.avg_salary),
                financial_params.prediction_accuracy,
                financial_params.intervention_effectiveness,
                financial_params.region, financial_params.currency)
    IN  IF cost_analysis.kind = "raise" THEN cost_analysis
        ELSE IF savings_analysis.kind = "raise" THEN savings_analysis
        ELSE Return([cost_analysis |-> cost_analysis.val,
                     savings_analysis |-> savings_analysis.val])

CallDisplayFinancialResults ==
    /\ fin.op = "none"
    /\ \E financial_params \in FinancialParams :
         /\ financial_params.avg_salary \in FormSalaries(financial_params.region)
         /\ fin' = [op   |-> "display_financial_results",
                    args |-> financial_params,
                    ret  |-> DisplayFinancialResults(financial_params, calc)]
    /\ UNCHANGED <<calc, files, cache, load, pred, session, view>>

NextDisplay == CallDisplayFinancialResults \/ RerunFinance

SpecDisplay == InitFinance /\ [][NextDisplay]_vars

---------------------------------------------------------------------------
(* Sessions: ADMIN_CREDENTIALS, login_page, main_app, main                 *)

AdminCredentials ==
    [u \in {"admin", "hr_manager", "financial"} |->
        CASE u = "admin" ->
                [password_hash |->
                     "240be518fabd2724ddb6f04eeb1da5967448d7e831c08c8fa822809f74c720a9",
                 role |-> "admin",
                 permissions |-> <<"employee_assessment", "financial_analysis",
                                   "dashboard">>,
                 display_name |-> "Administrator"]
          [] u = "hr_manager" ->
                [password_hash |->
                     "8c6976e5b5410415bde908bd4dee15dfb167a9c873fc4bb8a81f6f2ab448a918",
                 role |-> "hr_manager",
                 permissions |-> <<"employee_assessment", "financial_analysis",
                                   "dashboard">>,
                 display_name |-> "HR Manager"]
          [] u = "financial" ->
                [password_hash |->
                     "ef92b778bafe771e89245b89ecbc08a44a4e166c06659911881f383d4473e94f",
                 role |-> "financial",
                 permissions |-> <<"financial_analysis">>,
                 display_name |-> "Financial Analyst"]]

GetUserPermissions(username) ==
    IF username \in DOMAIN AdminCredentials
    THEN AdminCredentials[username].permissions
    ELSE <<>>

GetUserRole(username) ==
    IF username \in DOMAIN AdminCredentials
    THEN AdminCredentials[username].role
    ELSE "guest"

GetUserDisplayName(username) ==
    IF username \in DOMAIN AdminCredentials
    THEN AdminCredentials[username].display_name
    ELSE username

\* the mutation of HasPermission that asks for an account only
HasPermissionOfAnyAccount(username, permission) ==
    username \in DOMAIN AdminCredentials

\* permission in get_user_permissions(username)
HasPermission(username, permission) ==
    \E i \in 1..Len(GetUserPermissions(username)) :
        GetUserPermissions(username)[i] = permission

\* hashlib.sha256(str.encode(password)).hexdigest(), on the passwords of the model
HashPassword(password) ==
    CASE password = "admin123" ->
            "240be518fabd2724ddb6f04eeb1da5967448d7e831c08c8fa822809f74c720a9"
      [] password = "admin" ->
            "8c6976e5b5410415bde908bd4dee15dfb167a9c873fc4bb8a81f6f2ab448a918"
      [] password = "password123" ->
            "ef92b778bafe771e89245b89ecbc08a44a4e166c06659911881f383d4473e94f"
      [] password = "finance123" ->
            "48f7312924d74358e75294e3b3613f2319d99e944184b69550f528577ca082fb"

\* the mutation of VerifyPassword that accepts every password
VerifyPasswordAlways(password, hashed) == TRUE

VerifyPassword(password, hashed) == HashPassword(password) = hashed

\* session_state with key set to value
Assign(state, key, value) == (key :> value) @@ state

\* main: if 'logged_in' not in st.session_state: st.session_state.logged_in = False
EnsureLoggedIn(state) ==
    IF "logged_in" \in DOMAIN state THEN state ELSE Assign(state, "logged_in", FALSE)

\* login_page on a submitted form: the session after the five assignments
LoggedIn(state, username) ==
    Assign(Assign(Assign(Assign(Assign(state,
        "logged_in", TRUE),
        "username", username),
        "user_role", GetUserRole(username)),
        "user_permissions", GetUserPermissions(username)),
        "display_name", GetUserDisplayName(username))

\* main_app on a click of the logout button: the session after the four assignments
LoggedOut(state) ==
    Assign(Assign(Assign(Assign(state,
        "logged_in", FALSE),
        "username", None),
        "user_role", None),
        "user_permissions", <<>>)

\* tab_permissions: one entry for each of the three features the user is permitted
TabPermissions(username) ==
    (IF HasPermission(username, "employee_assessment")
     THEN <<"employee_assessment">> ELSE <<>>)
    \o (IF HasPermission(username, "financial_analysis")
        THEN <<"financial_analysis">> ELSE <<>>)
    \o (IF HasPermission(username, "dashboard") THEN <<"dashboard">> ELSE <<>>)

LoginView(message) == [page |-> "login", tabs |-> <<>>, message |-> message]

\* what main_app renders for the session, load_model_components ending as loaded:
\* an exception of the load ends the script run before any tab is made
MainAppView(state, loaded) ==
    IF loaded.kind = "raise"
    THEN [page |-> "exception", tabs |-> <<>>, message |-> loaded.exc]
    ELSE [page |-> "main_app", tabs |-> TabPermissions(state["username"]),
          message |-> IF TabPermissions(state["username"]) = <<>>
                      THEN "no_feature" ELSE "none"]

\* what a script run (main) renders for the session
MainView(state, loaded) ==
    IF EnsureLoggedIn(state)["logged_in"]
    THEN MainAppView(state, loaded)
    ELSE LoginView("none")

\* the cache after a script run (main) for the session
MainCache(state) ==
    IF EnsureLoggedIn(state)["logged_in"]
    THEN CacheAfter(cache, LoadModelComponents(cache, files))
    ELSE cache

Usernames == {"admin", "hr_manager", "financial", "guest"}

Passwords == {"admin123", "admin", "password123", "finance123"}

\* what started a script run: nothing, a submission of the login form with its two
\* inputs, or a click of the logout button
NoEvent == [kind |-> "none", username |-> None, password |-> None]

Submission(username, password) ==
    [kind |-> "submit", username |-> username, password |-> password]

LogoutClick == [kind |-> "logout", username |-> None, password |-> None]

\* the rendered page together with what started the script run
Rendered(page, event) ==
    [page |-> page.page, tabs |-> page.tabs, message |-> page.message,
     event |-> event]

\* a script run that no login submission and no logout click started
RunMain ==
    /\ session' = EnsureLoggedIn(session)
    /\ view' = Rendered(MainView(session, LoadModelComponents(cache, files)),
                        NoEvent)
    /\ cache' = MainCache(session)
    /\ UNCHANGED <<calc, fin, files, load, pred>>

\* the login form is submitted: login_page, and on success the script run that
\* st.rerun() starts
SubmitLogin ==
    /\ view.page = "login"
    /\ \E username \in Usernames, password \in Passwords :
         IF username \in DOMAIN AdminCredentials
         THEN IF VerifyPassword(password, AdminCredentials[username].password_hash)
              THEN /\ session' = LoggedIn(session, username)
                   /\ view' = Rendered(MainView(LoggedIn(session, username),
                                                LoadModelComponents(cache, files)),
                                       Submission(username, password))
                   /\ cache' = MainCache(LoggedIn(session, username))
              ELSE /\ view' = Rendered(LoginView("wrong_password"),
                                       Submission(username, password))
                   /\ UNCHANGED <<session, cache>>
         ELSE /\ view' = Rendered(LoginView("unknown_username"),
                                  Submission(username, password))
              /\ UNCHANGED <<session, cache>>
    /\ UNCHANGED <<calc, fin, files, load, pred>>

\* the logout button of main_app's sidebar is clicked: the four assignments, and
\* the script run that st.rerun() starts
ClickLogout ==
    /\ view.page \in {"main_app", "exception"}
    /\ session' = LoggedOut(session)
    /\ view' = Rendered(MainView(LoggedOut(session),
                                 LoadModelComponents(cache, files)),
                        LogoutClick)
    /\ UNCHANGED <<calc, fin, files, cache, load, pred>>

NextSession == RunMain \/ SubmitLogin \/ ClickLogout

SpecSession == Init /\ [][NextSession]_vars

---------------------------------------------------------------------------
(* Properties of make_prediction (SpecPredict)                             *)

Scored == pred.op = "make_prediction"

DemoScored == Scored /\ pred.args.model = None

ModelScored == Scored /\ pred.args.model # None

\* the probability of class 1 in the result of a call that returned one
RiskOf(ret) == ret.val.prediction_proba[2]

DemoRiskClamped ==
    DemoScored =>
        /\ pred.ret.kind = "return"
        /\ ~pred.ret.val.null
        /\ RatLeq(Rat(5, 100), RiskOf(pred.ret))
        /\ RatLeq(RiskOf(pred.ret), Rat(95, 100))

\* C2 happens: a very large OverTime code is answered with the upper bound 0.95
HugeCodeClamped ==
    /\ DemoScored
    /\ "OverTime" \in DOMAIN pred.args.hr_input
    /\ pred.args.hr_input["OverTime"] = BigCode
    /\ pred.ret.kind = "return"
    /\ RiskOf(pred.ret) = Rat(95, 100)

\* 40 times the risk of the demo formula before the clamp:
\* 40 * (0.3 + 0.2*ot + 0.3*(1 - js/4) + 0.2*(1 - wlb/4))
Risk40(ot, js, wlb) == 12 + 8 * ot + 3 * (4 - js) + 2 * (4 - wlb)

\* 40 times clamp(r, 0.05, 0.95)
Clamp40(r40) == IF r40 < 2 THEN 2 ELSE IF r40 > 38 THEN 38 ELSE r40

\* C3: in demo mode, for a request carrying OverTime in {0, 1}, JobSatisfaction and
\* WorkLifeBalance, the risk is clamp(0.3 + 0.2*ot + 0.3*(1 - js/4) + 0.2*(1 - wlb/4),
\* 0.05, 0.95), the label is 1 exactly when the risk exceeds 0.5 (0 at exactly 0.5),
\* and the pair is (1 - risk, risk); OverTime = JobSatisfaction = WorkLifeBalance = 1
\* gives risk 0.875 and label 1
DemoFormula ==
    (/\ DemoScored
     /\ DOMAIN pred.args.hr_input = HrKeys
     /\ pred.args.hr_input["OverTime"] \in {0, 1}) =>
        LET hr == pred.args.hr_input
            r40 == Clamp40(Risk40(hr["OverTime"], hr["JobSatisfaction"],
                                  hr["WorkLifeBalance"]))
        IN  /\ pred.ret.kind = "return"
            /\ ~pred.ret.val.null
            /\ pred.ret.val.prediction_proba = <<Rat(40 - r40, 40), Rat(r40, 40)>>
            /\ pred.ret.val.prediction = (IF r40 > 20 THEN 1 ELSE 0)
            /\ (hr["OverTime"] = 1 /\ hr["JobSatisfaction"] = 1
                    /\ hr["WorkLifeBalance"] = 1) =>
                   /\ RiskOf(pred.ret) = Rat(875, 1000)
                   /\ pred.ret.val.prediction = 1

\* C3 happens: a risk of exactly 0.5 (overtime, both scales at 4) is labelled 0
TieIsStay ==
    /\ DemoScored
    /\ DOMAIN pred.args.hr_input = HrKeys
    /\ pred.args.hr_input = [k \in HrKeys |-> IF k = "OverTime" THEN 1 ELSE 4]
    /\ pred.ret.kind = "return"
    /\ RiskOf(pred.ret) = Rat(1, 2)
    /\ pred.ret.val.prediction = 0

\* C4: with a classifier, when transform, predict or predict_proba raises,
\* make_prediction returns the null result and raises nothing; the call that raised
\* is the last one made and no call is made twice
FailureGivesNullResult ==
    (ModelScored /\ pred.env.raises # "none") =>
        /\ pred.ret = Return(NullPrediction)
        /\ pred.calls # <<>>
        /\ pred.calls[Len(pred.calls)] = pred.env.raises
        /\ \A i, j \in 1..Len(pred.calls) : pred.calls[i] = pred.calls[j] => i = j

\* C4 happens: predict_proba raised after transform and predict returned
PredictProbaRaised ==
    /\ ModelScored
    /\ pred.env.raises = "predict_proba"
    /\ pred.calls = <<"transform", "predict", "predict_proba">>
    /\ pred.ret.kind = "return"
    /\ pred.ret.val.null

---------------------------------------------------------------------------
(* Properties of load_model_components (SpecLoad)                          *)

\* a call that ran the body: nothing was kept from an earlier call
Loaded == load.op = "load_model_components" /\ ~load.hit

\* C5: when one of the four files is missing or is present but does not
\* deserialize, load_model_components does not fail and returns the demo components
\* (no model, no scaler, no feature names, the metadata Demo / 0.87 / 0.82)
BadArtifactGivesDemo ==
    (Loaded /\ \E a \in ArtifactSet : load.disk[a] # "ok") =>
        /\ load.ret.kind = "return"
        /\ load.ret.val = DemoComponents

\* C16: in one process, over any sequence of script runs, the body of
\* load_model_components is executed at most once, and every call ends as the first
\* call did (the same mode and the same artifacts), whatever happens to the files
\* after the first load
LoadedOnceAndFixed ==
    /\ load.ran <= 1
    /\ (load.op = "load_model_components" /\ load.first # <<>>) =>
           load.ret = load.first[1]

---------------------------------------------------------------------------
(* Properties of the calculator (SpecFinance)                              *)

Costed == fin.op = "calculate_attrition_cost"

Estimated == fin.op = "estimate_annual_savings"

\* the multiplier the loop of a costed call used for component c
UsedMultiplier(c) ==
    MultiplierOf(calc, ResolveMultipliers(calc, fin.args.region,
                                          fin.args.custom_multipliers), c)

\* the sum of a rational for each of the five components
SumOfFive(f) ==
    RatAdd(RatAdd(RatAdd(RatAdd(f["recruitment"], f["training"]),
                         f["productivity_loss"]), f["separation"]),
           f["opportunity_cost"])

\* salary * 2.0 / 12 + salary * 0.083 + salary * 0.054, the salary an integer
StatutoryTerms(salary) ==
    RatAdd(RatAdd(Rat(salary * 2, 12), Rat(salary * 83, 1000)), Rat(salary * 54, 1000))

\* floor(total_employees * attrition_rate / 100), the rate in halves of a percent
FloorCases(total_employees, rate2) == (total_employees * rate2) \div 200

\* C6: with region GLOBAL and its defaults, for a positive salary and
\* floor(total_employees * attrition_rate / 100) >= 1, estimate_annual_savings returns
\* annual_attrition_cases = that floor, cost_per_case = the total of
\* calculate_attrition_cost (the salary), current_annual_cost = cases * cost_per_case,
\* predicted_cases = cases * accuracy / 100, prevented_cases = predicted *
\* effectiveness / 100, annual_savings = prevented * cost_per_case and
\* savings_percentage = annual_savings / current_annual_cost * 100
SavingsPipelineAsStated ==
    (/\ Estimated
     /\ fin.args.region = "GLOBAL"
     /\ fin.args.avg_salary > 0
     /\ FloorCases(fin.args.total_employees, fin.args.rate2) >= 1) =>
        LET cases == FloorCases(fin.args.total_employees, fin.args.rate2)
            cost_per_case == RatInt(fin.args.avg_salary)
            current   == RatMul(RatInt(cases), cost_per_case)
            predicted == RatMul(RatInt(cases), Rat(fin.args.prediction_accuracy, 100))
            prevented == RatMul(predicted,
                                Rat(fin.args.intervention_effectiveness, 100))
            savings   == RatMul(prevented, cost_per_case)
        IN  /\ fin.ret.kind = "return"
            /\ fin.ret.val.annual_attrition_cases = cases
            /\ fin.ret.val.cost_per_case = cost_per_case
            /\ fin.ret.val.current_annual_cost = current
            /\ fin.ret.val.predicted_cases = predicted
            /\ fin.ret.val.prevented_cases = prevented
            /\ fin.ret.val.annual_savings = savings
            /\ fin.ret.val.savings_percentage =
                   RatMul(RatDiv(savings, current), RatInt(100))

\* C7: when current_annual_cost is 0 because no case is counted (no employee, a
\* zero rate, or a product below 1), estimate_annual_savings returns a projection
\* and does not end in a division fault
ZeroCostGivesProjection ==
    (/\ Estimated
     /\ fin.args.avg_salary > 0
     /\ AnnualAttritionCases(fin.args.total_employees, fin.args.rate2) = 0) =>
        fin.ret.kind = "return"

\* C8: for a positive salary, every component's amount is salary * its multiplier,
\* to which region INDONESIA, and no other region, adds for separation
\* salary * 2.0 / 12 + salary * 0.083 + salary * 0.054; with the INDONESIA defaults
\* and salary 120,000,000 the amounts are 21,600,000 / 14,400,000 / 54,000,000 /
\* 46,040,000 / 8,400,000 and the total is 144,440,000
StatutoryTermsAdded ==
    (Costed /\ fin.args.annual_salary > 0) =>
        LET salary == RatInt(fin.args.annual_salary)
            base(c) == RatMul(salary, UsedMultiplier(c))
            statutory == StatutoryTerms(fin.args.annual_salary)
            amount(c) == fin.ret.val.breakdown[c].amount
        IN  /\ fin.ret.kind = "return"
            /\ \A c \in ComponentSet :
                 amount(c) = IF fin.args.region = "INDONESIA" /\ c = "separation"
                             THEN RatAdd(base(c), statutory)
                             ELSE base(c)
            /\ (/\ fin.args.region = "INDONESIA"
                /\ fin.args.annual_salary = 120000
                /\ DOMAIN fin.args.custom_multipliers.m = {}) =>
                   /\ amount("recruitment") = RatInt(21600)
                   /\ amount("training") = RatInt(14400)
                   /\ amount("productivity_loss") = RatInt(54000)
                   /\ amount("separation") = RatInt(46040)
                   /\ amount("opportunity_cost") = RatInt(8400)
                   /\ fin.ret.val.total_cost = RatInt(144440)

\* C8 happens: the INDONESIA defaults on salary 120,000,000 cost 144,440,000
IndonesiaExampleCosted ==
    /\ Costed
    /\ fin.args.region = "INDONESIA"
    /\ fin.args.annual_salary = 120000
    /\ fin.args.custom_multipliers = NoMultipliers
    /\ fin.ret.kind = "return"
    /\ fin.ret.val.breakdown["separation"].amount = RatInt(46040)
    /\ fin.ret.val.total_cost = RatInt(144440)

\* C9: for a region other than INDONESIA and a positive salary, total_cost is the
\* sum of the five amounts and is salary * S, and cost_as_percentage_of_salary is
\* 100 * S, where S is the sum of the five multipliers (the defaults, or the
\* override's when it gives all five); GLOBAL defaults on 60000 give 60000 and 100
TotalIsSalaryTimesSum ==
    (/\ Costed
     /\ fin.args.region # "INDONESIA"
     /\ fin.args.annual_salary > 0
     /\ DOMAIN fin.args.custom_multipliers.m \in {{}, ComponentSet}) =>
        LET salary == RatInt(fin.args.annual_salary)
            S == IF DOMAIN fin.args.custom_multipliers.m = {}
                 THEN SumOfFive([c \in ComponentSet |->
                                     calc.cost_components[c].default_multiplier])
                 ELSE SumOfFive(fin.args.custom_multipliers.m)
        IN  /\ fin.ret.kind = "return"
            /\ fin.ret.val.total_cost =
                   SumOfFive([c \in ComponentSet |-> fin.ret.val.breakdown[c].amount])
            /\ fin.ret.val.total_cost = RatMul(salary, S)
            /\ fin.ret.val.cost_as_percentage_of_salary = RatMul(RatInt(100), S)
            /\ (fin.args.region = "GLOBAL" /\ fin.args.annual_salary = 60
                    /\ DOMAIN fin.args.custom_multipliers.m = {}) =>
                   /\ fin.ret.val.total_cost = RatInt(60)
                   /\ fin.ret.val.cost_as_percentage_of_salary = RatInt(100)

\* C9 happens: a full override summing to 0.97 on salary 65000 in region GLOBAL
FullOverrideCosted ==
    /\ Costed
    /\ fin.args.region = "GLOBAL"
    /\ fin.args.annual_salary = 65
    /\ DOMAIN fin.args.custom_multipliers.m = ComponentSet
    /\ SumOfFive(fin.args.custom_multipliers.m) = Rat(97, 100)
    /\ fin.ret.kind = "return"
    /\ fin.ret.val.total_cost = Rat(6305, 100)
    /\ fin.ret.val.cost_as_percentage_of_salary = RatInt(97)

\* the multiplier the resolution order override > regional default > global default
\* gives component c
OrderedMultiplier(c) ==
    IF c \in DOMAIN fin.args.custom_multipliers.m
    THEN fin.args.custom_multipliers.m[c]
    ELSE IF fin.args.region = "INDONESIA"
         THEN calc.cost_components[c].indonesia_multiplier
         ELSE calc.cost_components[c].default_multiplier

\* C10: each component's multiplier is the override's value when the override names
\* the component, else the INDONESIA default when the region is INDONESIA, else the
\* global default, also when the override is empty or names only some components
MultipliersResolvedInOrder ==
    (Costed /\ fin.args.annual_salary > 0) =>
        /\ fin.ret.kind = "return"
        /\ \A c \in ComponentSet :
             fin.ret.val.breakdown[c].amount =
                 RatAdd(RatMul(RatInt(fin.args.annual_salary), OrderedMultiplier(c)),
                        IF fin.args.region = "INDONESIA" /\ c = "separation"
                        THEN StatutoryTerms(fin.args.annual_salary)
                        ELSE RatInt(0))

\* a costed call with a positive salary and an override that gives all five
FullyOverridden ==
    /\ Costed
    /\ fin.args.annual_salary > 0
    /\ DOMAIN fin.args.custom_multipliers.m = ComponentSet

\* the amounts of the call that differs from the costed one in the override of
\* component c alone, which it sets to v
AmountsWith(c, v) ==
    LET other == CalculateAttritionCost(
                     calc, RatInt(fin.args.annual_salary), fin.args.region,
                     fin.args.currency,
                     Multipliers([fin.args.custom_multipliers.m EXCEPT ![c] = v]))
    IN  [k \in ComponentSet |-> other.val.breakdown[k].amount]

\* C11: for every region, positive salary and two full overrides that differ in one
\* component c, the amounts of the four other components are the same, the amount
\* of c differs by salary * the difference of the multipliers, and the amounts are
\* those of the override's values, not of the regional defaults
OverrideVariesOneComponent ==
    FullyOverridden =>
        LET salary == RatInt(fin.args.annual_salary)
            m == fin.args.custom_multipliers.m
            amount(k) == fin.ret.val.breakdown[k].amount
            extra(k) == IF fin.args.region = "INDONESIA" /\ k = "separation"
                        THEN StatutoryTerms(fin.args.annual_salary)
                        ELSE RatInt(0)
        IN  /\ fin.ret.kind = "return"
            /\ \A k \in ComponentSet :
                 amount(k) = RatAdd(RatMul(salary, m[k]), extra(k))
            /\ \A c \in ComponentSet, v \in MultiplierValues :
                 /\ \A k \in ComponentSet \ {c} : AmountsWith(c, v)[k] = amount(k)
                 /\ RatSub(AmountsWith(c, v)[c], amount(c)) =
                        RatMul(salary, RatSub(v, m[c]))

\* C11 happens: region INDONESIA costed with a full override of 0.11 for every
\* component but training, which has 0.25
IndonesiaFullyOverridden ==
    /\ FullyOverridden
    /\ fin.args.region = "INDONESIA"
    /\ fin.args.annual_salary = 60
    /\ fin.args.custom_multipliers.m =
           [k \in ComponentSet |-> IF k = "training" THEN Rat(25, 100) ELSE Rat(11, 100)]
    /\ fin.ret.kind = "return"
    /\ fin.ret.val.breakdown["training"].amount = RatInt(15)
    /\ fin.ret.val.breakdown["recruitment"].amount = Rat(66, 10)

\* a calculator call whose region is no key of regional_configs
UnknownRegion ==
    /\ Costed \/ Estimated
    /\ fin.args.region \notin DOMAIN calc.regional_configs

\* the outcome of the call of fin with region GLOBAL in the place of its region
SameCallForGlobal ==
    IF Costed
    THEN CalculateAttritionCost(calc, RatInt(fin.args.annual_salary), "GLOBAL",
                                fin.args.currency, fin.args.custom_multipliers)
    ELSE EstimateAnnualSavings(calc, fin.args.total_employees, fin.args.rate2,
                               RatInt(fin.args.avg_salary),
                               fin.args.prediction_accuracy,
                               fin.args.intervention_effectiveness, "GLOBAL",
                               fin.args.currency)

\* C12: for a region that is not in the regional table, calculate_attrition_cost and
\* estimate_annual_savings end as they do for region GLOBAL with the same other
\* arguments: they return whenever the GLOBAL call returns (a positive salary, and
\* for the savings at least one case), and every returned figure (amounts, total,
\* percentages, savings, conversions, currency) is that of GLOBAL
UnknownRegionIsGlobal ==
    UnknownRegion =>
        /\ fin.ret.kind = SameCallForGlobal.kind
        /\ fin.ret.kind = "raise" => fin.ret = SameCallForGlobal
        /\ fin.ret.kind = "return" =>
               /\ fin.ret.val.region = fin.args.region
               /\ [fin.ret.val EXCEPT !.region = "GLOBAL"] = SameCallForGlobal.val
               /\ fin.args.currency = None => fin.ret.val.currency = "USD"
        /\ (Costed /\ fin.args.annual_salary > 0) => fin.ret.kind = "return"
        /\ (/\ Estimated
            /\ fin.args.avg_salary > 0
            /\ AnnualAttritionCases(fin.args.total_employees, fin.args.rate2) > 0) =>
               fin.ret.kind = "return"

\* C12 happens: savings estimated for region EUROPE with no currency given come
\* back in USD with the figures of the GLOBAL defaults
EuropeEstimatedAsGlobal ==
    /\ Estimated
    /\ fin.args.region = "EUROPE"
    /\ fin.args.currency = None
    /\ fin.args.total_employees = 1000
    /\ fin.args.rate2 = 32
    /\ fin.args.avg_salary = 60
    /\ fin.ret.kind = "return"
    /\ fin.ret.val.currency = "USD"
    /\ fin.ret.val.cost_per_case = RatInt(60)
    /\ fin.ret.val.current_annual_cost = RatInt(9600)

---------------------------------------------------------------------------
(* Properties of prepare_model_input (SpecPrepare)                         *)

Prepared == pred.op = "prepare_model_input"

\* the value of the column at place i of the frame a call returned
SlotValue(i) == pred.ret.val[i].value

\* C13: every column of the schema that bears the name of an attribute present in
\* the request (Gender, MaritalStatus, OverTime and BusinessTravel as well as Age)
\* holds that attribute's value in the frame prepare_model_input returns
NamedSlotsTakeTheAttribute ==
    Prepared =>
        /\ pred.ret.kind = "return"
        /\ \A i \in 1..Len(pred.args.feature_names) :
             pred.args.feature_names[i] \in DOMAIN pred.args.hr_input =>
                 SlotValue(i) = pred.args.hr_input[pred.args.feature_names[i]]

DerivedFlags ==
    {"Gender_Male", "MaritalStatus_Married", "MaritalStatus_Single", "OverTime_Yes",
     "BusinessTravel_Travel_Frequently", "BusinessTravel_Travel_Rarely"}

\* the one-hot rule of a derived flag: the attribute it reads and the code it answers
FlagRule(flag) ==
    CASE flag = "Gender_Male" -> [of |-> "Gender", code |-> 1]
      [] flag = "MaritalStatus_Married" -> [of |-> "MaritalStatus", code |-> 1]
      [] flag = "MaritalStatus_Single" -> [of |-> "MaritalStatus", code |-> 0]
      [] flag = "OverTime_Yes" -> [of |-> "OverTime", code |-> 1]
      [] flag = "BusinessTravel_Travel_Frequently" -> [of |-> "BusinessTravel", code |-> 2]
      [] flag = "BusinessTravel_Travel_Rarely" -> [of |-> "BusinessTravel", code |-> 1]

\* C14: for a request carrying Gender, MaritalStatus, OverTime and BusinessTravel with
\* codes of their enumerations, each derived column of the schema holds 1 when its
\* attribute has the flag's code (Gender_Male: Gender = 1, MaritalStatus_Married:
\* MaritalStatus = 1, MaritalStatus_Single: MaritalStatus = 0, OverTime_Yes:
\* OverTime = 1, BusinessTravel_Travel_Frequently: BusinessTravel = 2,
\* BusinessTravel_Travel_Rarely: BusinessTravel = 1) and 0 otherwise
DerivedFlagsAreOneHot ==
    (/\ Prepared
     /\ {"Gender", "MaritalStatus", "OverTime", "BusinessTravel"}
            \subseteq DOMAIN pred.args.hr_input) =>
        /\ pred.ret.kind = "return"
        /\ \A i \in 1..Len(pred.args.feature_names) :
             LET flag == pred.args.feature_names[i] IN
             flag \in DerivedFlags =>
                 SlotValue(i) =
                     (IF pred.args.hr_input[FlagRule(flag).of] = FlagRule(flag).code
                      THEN 1 ELSE 0)

\* C14 happens: a divorced woman who travels often and works no overtime, on the
\* schema of all columns
AllFlagsPrepared ==
    /\ Prepared
    /\ pred.args.feature_names = SlotNames
    /\ DOMAIN pred.args.hr_input =
           {"Gender", "MaritalStatus", "OverTime", "BusinessTravel"}
    /\ pred.args.hr_input["Gender"] = 0
    /\ pred.args.hr_input["MaritalStatus"] = 2
    /\ pred.args.hr_input["OverTime"] = 0
    /\ pred.args.hr_input["BusinessTravel"] = 2
    /\ pred.ret.kind = "return"
    /\ [i \in 1..Len(SlotNames) |-> SlotValue(i)] = <<0, 0, 0, 0, 0, 0, 0, 0, 0, 1, 0, 0>>

\* C15: prepare_model_input returns for every request (empty, partial, with
\* attributes no schema knows) and every schema a frame whose columns are the
\* schema's names in the schema's order, and every column with no mapping rule
\* (no key of feature_mapping, no derived flag) holds 0
FrameFollowsSchema ==
    Prepared =>
        /\ pred.ret.kind = "return"
        /\ Len(pred.ret.val) = Len(pred.args.feature_names)
        /\ \A i \in 1..Len(pred.args.feature_names) :
             /\ pred.ret.val[i].column = pred.args.feature_names[i]
             /\ pred.args.feature_names[i] \notin FeatureMapping \cup DerivedFlags =>
                    SlotValue(i) = 0

\* C15 happens: a request with overtime and an attribute no schema knows, on the
\* reversed schema of all columns, leaves 0 in OverTime and Department_Sales
UnmappedSlotsZero ==
    /\ Prepared
    /\ pred.args.feature_names = Reverse(SlotNames)
    /\ DOMAIN pred.args.hr_input = {"OverTime", "Nickname"}
    /\ pred.args.hr_input["OverTime"] = 1
    /\ pred.ret.kind = "return"
    /\ pred.ret.val[1] = [column |-> "Department_Sales", value |-> 0]
    /\ pred.ret.val[6] = [column |-> "OverTime", value |-> 0]
    /\ pred.ret.val[5] = [column |-> "OverTime_Yes", value |-> 1]

\* C18: for a salary <= 0 calculate_attrition_cost either rejects the call with a
\* defined error or computes on a clamped salary: it returns no breakdown with a
\* negative amount or total, and it does not end in a division fault
NonPositiveSalaryHandled ==
    (Costed /\ fin.args.annual_salary <= 0) =>
        \/ fin.ret.kind = "raise" /\ fin.ret.exc # "ZeroDivisionError"
        \/ /\ fin.ret.kind = "return"
           /\ RatLeq(RatInt(0), fin.ret.val.total_cost)
           /\ \A c \in ComponentSet :
                RatLeq(RatInt(0), fin.ret.val.breakdown[c].amount)

\* C19: estimate_annual_savings converts annual_savings whenever the base currency
\* is not the secondary one: base IDR gives USD = annual_savings / 15750, base USD
\* gives IDR = annual_savings * 15750, and any other base currency (EUR) gives
\* a converted value too (conversions is not empty)
SavingsAlwaysConverted ==
    (Estimated /\ fin.args.avg_salary > 0 /\ fin.ret.kind = "return") =>
        LET conversions == fin.ret.val.conversions
            savings == fin.ret.val.annual_savings
        IN  /\ fin.ret.val.currency = "IDR" =>
                   conversions = [k \in {"USD"} |-> RatDiv(savings, RatInt(15750))]
            /\ fin.ret.val.currency = "USD" =>
                   conversions = [k \in {"IDR"} |-> RatMul(savings, RatInt(15750))]
            /\ DOMAIN conversions # {}

---------------------------------------------------------------------------
(* Properties of requests in any order (SpecRequests)                      *)

\* the outcome the call recorded in fin has on a calculator just constructed
FreshFinanceOutcome ==
    IF Costed
    THEN CalculateAttritionCost(NewCalculator, RatInt(fin.args.annual_salary),
                                fin.args.region, fin.args.currency,
                                fin.args.custom_multipliers)
    ELSE EstimateAnnualSavings(NewCalculator, fin.args.total_employees,
                               fin.args.rate2, RatInt(fin.args.avg_salary),
                               fin.args.prediction_accuracy,
                               fin.args.intervention_effectiveness,
                               fin.args.region, fin.args.currency)

\* the tables, the artifacts and the caller's dicts are as before every call, and
\* every result is the one its own arguments give
RequestsLeaveNoTrace ==
    /\ calc = NewCalculator
    /\ cache.loaded /\ cache.value \in {ModelComponents, DemoComponents}
    /\ (Costed \/ Estimated) =>
           /\ fin.ret = FreshFinanceOutcome
           /\ Costed => fin.after = fin.args.custom_multipliers
    /\ (Scored \/ Prepared) =>
           /\ pred.after = pred.args.hr_input
           /\ pred.args.feature_names = cache.value.feature_names
    /\ Scored =>
           pred.ret = MakePrediction(cache.value.model, cache.value.scaler,
                                     pred.args.hr_input, cache.value.feature_names,
                                     pred.env)
    /\ Prepared =>
           pred.ret = Return(PrepareModelInput(pred.args.hr_input,
                                               cache.value.feature_names))

---------------------------------------------------------------------------
(* Properties of sessions (SpecSession)                                    *)

\* the entries of a list
Entries(list) == {list[i] : i \in 1..Len(list)}

\* C20: after any sequence of logins and logouts, the tabs main_app renders are the
\* entries of the permission list the credential table has for the session's
\* username, and no other page has a tab; a session logged in as financial gets
\* neither the assessment tab nor the dashboard tab, and a username with an empty
\* permission list gets no tab
TabsAreThePermissions ==
    /\ view.page = "main_app" =>
           /\ session["logged_in"]
           /\ session["username"] \in DOMAIN AdminCredentials
           /\ Entries(view.tabs) =
                  Entries(AdminCredentials[session["username"]].permissions)
           /\ Len(view.tabs) = Cardinality(Entries(view.tabs))
           /\ session["username"] = "financial" =>
                  /\ "employee_assessment" \notin Entries(view.tabs)
                  /\ "dashboard" \notin Entries(view.tabs)
    /\ view.page # "main_app" => view.tabs = <<>>
    /\ \A username \in Usernames \cup {None} :
           GetUserPermissions(username) = <<>> => TabPermissions(username) = <<>>

\* C20 happens: a session is logged in as financial and main_app has rendered
\* the financial tab alone
FinancialSeesOneTab ==
    /\ view.page = "main_app"
    /\ session["logged_in"]
    /\ session["username"] = "financial"
    /\ session["user_permissions"] = <<"financial_analysis">>
    /\ view.tabs = <<"financial_analysis">>

\* the session is logged in
IsLoggedIn(state) == "logged_in" \in DOMAIN state /\ state["logged_in"]

\* the submission names an account of the table and the SHA-256 of its password is
\* the hash stored for the account
ValidSubmission(event) ==
    /\ event.kind = "submit"
    /\ event.username \in DOMAIN AdminCredentials
    /\ HashPassword(event.password) = AdminCredentials[event.username].password_hash

\* while logged in, the session's role and permissions are the table's entries for
\* the session's username
SessionMatchesTable ==
    IsLoggedIn(session) =>
        /\ session["username"] \in DOMAIN AdminCredentials
        /\ session["user_role"] = AdminCredentials[session["username"]].role
        /\ session["user_permissions"] =
               AdminCredentials[session["username"]].permissions

\* a step of the session: logged_in rises only by a valid submission, for the
\* submitted username; a failed submission leaves every session field as it was;
\* a logged-in session changes by nothing but a logout; a logout ends logged_in
SessionStep ==
    /\ (~IsLoggedIn(session) /\ IsLoggedIn(session')) =>
           /\ ValidSubmission(view'.event)
           /\ session'["username"] = view'.event.username
    /\ (view'.event.kind = "submit" /\ ~ValidSubmission(view'.event)) =>
           session' = session
    /\ (IsLoggedIn(session) /\ IsLoggedIn(session')) => session' = session
    /\ view'.event.kind = "logout" => ~IsLoggedIn(session')

\* C21: across any sequence of login submissions and logouts, the session is
\* logged in only from a submission of an account of the table with the password
\* whose SHA-256 is stored until the next logout; a submission with an unknown
\* username or a wrong password leaves every session field unchanged; and while
\* logged in the session's role and permissions are the table's for its username
LoggedInOnlyByValidSubmission ==
    /\ ~IsLoggedIn(session)
    /\ []SessionMatchesTable
    /\ [][SessionStep]_vars

\* C21 happens: the script run that the submission of hr_manager with its
\* password started has logged the session in
ManagerLoggedIn ==
    /\ IsLoggedIn(session)
    /\ view.page # "none"
    /\ view.event = Submission("hr_manager", "admin")
    /\ session["user_role"] = "hr_manager"

\* C23: a request without MaritalStatus is treated as code 0, so the column
\* MaritalStatus_Single holds 1; a request without Gender, OverTime or BusinessTravel
\* has 0 in Gender_Male, OverTime_Yes, BusinessTravel_Travel_Frequently and
\* BusinessTravel_Travel_Rarely; hence the frame of the empty request is not all
\* zero on a schema with MaritalStatus_Single
MissingMaritalStatusIsSingle ==
    Prepared =>
        /\ pred.ret.kind = "return"
        /\ \A i \in 1..Len(pred.args.feature_names) :
             LET flag == pred.args.feature_names[i] IN
             (flag \in DerivedFlags /\ FlagRule(flag).of \notin DOMAIN pred.args.hr_input) =>
                 SlotValue(i) = (IF flag = "MaritalStatus_Single" THEN 1 ELSE 0)
        /\ (/\ DOMAIN pred.args.hr_input = {}
            /\ \E i \in 1..Len(pred.args.feature_names) :
                 pred.args.feature_names[i] = "MaritalStatus_Single") =>
               \E i \in 1..Len(pred.args.feature_names) : SlotValue(i) # 0

\* C23 happens: the empty request on the schema of all columns has 1 in
\* MaritalStatus_Single and 0 in every other column
EmptyRequestIsSingle ==
    /\ Prepared
    /\ DOMAIN pred.args.hr_input = {}
    /\ pred.args.feature_names = SlotNames
    /\ pred.ret.kind = "return"
    /\ [i \in 1..Len(SlotNames) |-> SlotValue(i)] = <<0, 0, 0, 0, 0, 1, 0, 0, 0, 0, 0, 0>>

---------------------------------------------------------------------------
(* Properties of display_financial_results (SpecDisplay)                   *)

\* display_financial_results has returned its two analyses
Displayed == fin.op = "display_financial_results" /\ fin.ret.kind = "return"

\* C22: for every request display_financial_results handles, custom multipliers or
\* not, the cost_per_case of the savings analysis is the total_cost of the cost
\* analysis shown with it, and current_annual_cost is annual_attrition_cases times
\* that total_cost
CostPerCaseIsTheTotalShown ==
    Displayed =>
        /\ fin.ret.val.savings_analysis.cost_per_case =
               fin.ret.val.cost_analysis.total_cost
        /\ fin.ret.val.savings_analysis.current_annual_cost =
               RatMul(RatInt(fin.ret.val.savings_analysis.annual_attrition_cases),
                      fin.ret.val.cost_analysis.total_cost)

=============================================================================
